---- MODULE Spec2Model ----
(***************************************************************************)
(* ARTHUR background workers: the reminder checker (features/reminders.py  *)
(* over the reminders table of core/memory.py) and the Pomodoro study      *)
(* timer (features/study.py); the wake-word gate of the voice interface    *)
(* (interface/voice_mode.py over core/ears.py) and the utterance recorder  *)
(* (core/ears.py).  Threads are modelled one statement group per step;     *)
(* time is a logical clock; a text is a sequence of characters.            *)
(***************************************************************************)
EXTENDS Integers, Sequences, FiniteSets, Bags, TLC

(* ------------------------------ bounds --------------------------------- *)
MaxReminders == 2
MaxTime == 2
MaxCheckers == 2
MaxTimers == 2
MaxStarts == 2
MaxLongStarts == 1
MaxBusyStarts == 2
MaxPomodoros == 4
MaxClock == 32
MaxCommands == 1
MaxQueue == 2
MaxRun == 3

VARIABLES
    \* reminders.py / memory.py
    now,             \* datetime.now(), a logical clock
    reminders,       \* the reminders table: row id = index
    running,         \* ReminderManager.running
    checker_thread,  \* ReminderManager.checker_thread (0 = None, 1 = a Thread)
    chk,             \* the live _checker_loop threads: a bag of [pc, locals]
    rfg,             \* position of the foreground caller inside stop_checker
    delivered,       \* per row id: number of notification_callback calls
    completedBy      \* per row id: who executed complete_reminder on it

rvars == <<now, reminders, running, checker_thread, chk, rfg, delivered,
           completedBy>>

VARIABLES
    \* study.py: the fields of StudyTimer
    is_active, is_break, current_subject, session_start, session_duration,
    remaining_seconds, pomodoro_count,
    stop_event,      \* StudyTimer._stop_event
    thr,             \* the live _run_timer threads: a bag of [pc, locals]
    tfg,             \* position of the foreground caller inside stop_session
    result,          \* what the last StudyTimer call returned
    starts,          \* number of sessions and breaks started: stands for datetime.now()
    limit,           \* how many sessions and breaks the callers start at most
    study_sessions,  \* the study_sessions table
    complete_calls,  \* the calls of on_session_complete, in order
    break_calls,     \* number of calls of on_break_complete
    stop_requests,   \* the focus sessions stop_session was asked to stop
    ticks            \* number of on_tick calls since the last start

tvars == <<is_active, is_break, current_subject, session_start, session_duration,
           remaining_seconds, pomodoro_count, stop_event, thr, tfg, result,
           starts, limit, study_sessions, complete_calls, break_calls, stop_requests,
           ticks>>

VARIABLES
    \* voice_mode.py: the fields of VoiceInterface and the main loop
    clock,                \* time.time(), in seconds
    conversation_active, last_interaction,
    gpc,                  \* position of _main_loop
    heard,                \* the text _main_loop passes to _handle_input
    listened,             \* the last call of Ears: [call, text, some, command]
    commands,             \* conversations table: the user rows, in order
    routed,               \* the inputs passed to _process_command, in order
    greetings             \* number of brain.get_greeting() calls

gvars == <<clock, conversation_active, last_interaction, gpc, heard, listened,
           commands, routed, greetings>>

VARIABLES
    \* ears.py: the fields of Ears and the locals of record_audio
    is_recording,
    audio_queue,          \* Ears.audio_queue: the frames not yet dequeued
    stream_open,          \* the sd.InputStream of record_audio is running
    source,               \* what the microphone hears during this recording
    produced,             \* number of frames the stream has delivered
    max_duration,         \* the argument of record_audio (0 = None)
    recorded_chunks, silence_chunks,
    epc,                  \* position of record_audio
    utterance,            \* the frames of the array record_audio returned
    cycle,                \* the parity of the number of record_audio calls so far
    stop_at               \* frames accumulated when stop_listening was called in
                          \* this call of record_audio, -1: not called

evars == <<is_recording, audio_queue, stream_open, source, produced, max_duration,
           recorded_chunks, silence_chunks, epc, utterance, cycle, stop_at>>

vars == <<rvars, tvars, gvars, evars>>
nonreminder == <<tvars, gvars, evars>>
nontimer == <<rvars, gvars, evars>>
nongate == <<rvars, tvars, evars>>
nonears == <<rvars, tvars, gvars>>

(* ------------------------- core/memory.py ------------------------------ *)
Ids == 1..Len(reminders)

RECURSIVE SeqOfIds(_, _)
\* the ids of S in ascending row order
SeqOfIds(S, n) ==
    IF n = 0 THEN <<>>
    ELSE IF n \in S THEN Append(SeqOfIds(S, n - 1), n)
         ELSE SeqOfIds(S, n - 1)

\* get_due_reminders without the remind_at test
get_due_reminders_any ==
    SeqOfIds({i \in Ids : ~reminders[i].completed}, Len(reminders))

\* Memory.get_due_reminders: WHERE completed = FALSE AND remind_at <= now
get_due_reminders ==
    SeqOfIds({i \in Ids : ~reminders[i].completed /\ reminders[i].remind_at <= now},
             Len(reminders))

RECURSIVE SortByRemindAt(_)
\* ORDER BY remind_at ASC (ties in row order)
SortByRemindAt(S) ==
    IF S = {} THEN <<>>
    ELSE LET m == CHOOSE i \in S : \A j \in S :
                      \/ reminders[i].remind_at < reminders[j].remind_at
                      \/ reminders[i].remind_at = reminders[j].remind_at /\ i <= j
         IN <<m>> \o SortByRemindAt(S \ {m})

\* Memory.get_pending_reminders
get_pending_reminders ==
    SortByRemindAt({i \in Ids : ~reminders[i].completed})

\* complete_reminder flipping the flag instead of setting it
complete_reminder_toggle(tbl, id) ==
    [tbl EXCEPT ![id].completed = ~@]

\* Memory.complete_reminder: UPDATE reminders SET completed = TRUE WHERE id = ?
complete_reminder(tbl, id) ==
    [tbl EXCEPT ![id].completed = TRUE]

\* Memory.add_reminder: INSERT (completed defaults to FALSE)
memory_add_reminder(tbl, remind_at) ==
    Append(tbl, [remind_at |-> remind_at, completed |-> FALSE])

(* ----------------------- features/reminders.py ------------------------- *)
\* a thread just created by start_checker: about to test self.running
NewChecker == [pc |-> "wait", due |-> <<>>, messages |-> <<>>]

\* the bag of threads after thread s has moved to s2
Moved(s, s2) == (chk (-) SetToBag({s})) (+) SetToBag({s2})

\* the bag of threads after thread s has returned from _checker_loop
Ended(s) == chk (-) SetToBag({s})

AliveCheckers == BagCardinality(chk)
InCycle == BagCardinality([s \in {x \in BagToSet(chk) : x.pc \in {"mark", "deliver"}}
                              |-> chk[s]])

RInit ==
    /\ now = 0
    /\ reminders = <<>>
    /\ running = FALSE
    /\ checker_thread = 0
    /\ chk = EmptyBag
    /\ rfg = "idle"
    /\ delivered = [i \in 1..MaxReminders |-> 0]
    /\ completedBy = [i \in 1..MaxReminders |-> "none"]

\* the clock advances
Tick ==
    /\ now < MaxTime
    /\ now' = now + 1
    /\ UNCHANGED <<reminders, running, checker_thread, chk, rfg, delivered, completedBy>>

\* ReminderManager.add_reminder with a parsed time remind_at
add_reminder(remind_at) ==
    /\ rfg = "idle"
    /\ Len(reminders) < MaxReminders
    /\ IF remind_at <= now
       THEN UNCHANGED reminders
       ELSE reminders' = memory_add_reminder(reminders, remind_at)
    /\ UNCHANGED <<now, running, checker_thread, chk, rfg, delivered, completedBy>>

\* ReminderManager.cancel_reminder with a digit identifier
cancel_reminder(identifier) ==
    /\ rfg = "idle"
    /\ LET pending == get_pending_reminders
           idx == identifier - 1
       IN IF 0 <= idx /\ idx < Len(pending)
          THEN /\ reminders' = complete_reminder(reminders, pending[idx + 1])
               /\ completedBy' = [completedBy EXCEPT ![pending[idx + 1]] = "cancel"]
          ELSE UNCHANGED <<reminders, completedBy>>
    /\ UNCHANGED <<now, running, checker_thread, chk, rfg, delivered>>

\* ReminderManager.start_checker
start_checker ==
    /\ rfg = "idle"
    /\ IF running
       THEN UNCHANGED <<running, checker_thread, chk>>
       ELSE /\ AliveCheckers < MaxCheckers
            /\ running' = TRUE
            /\ checker_thread' = 1
            /\ chk' = chk (+) SetToBag({NewChecker})
    /\ UNCHANGED <<now, reminders, rfg, delivered, completedBy>>

\* ReminderManager.stop_checker, up to the join
stop_checker ==
    /\ rfg = "idle"
    /\ running' = FALSE
    /\ rfg' = IF checker_thread # 0 THEN "join" ELSE "idle"
    /\ UNCHANGED <<now, reminders, checker_thread, chk, delivered, completedBy>>

\* checker_thread.join(timeout=2) returns: the thread ended, or 2 s passed
\* (the loop sleeps interval = 30 s and a cycle calls the store and the callback)
stop_checker_join ==
    /\ rfg = "join"
    /\ rfg' = "idle"
    /\ UNCHANGED <<now, reminders, running, checker_thread, chk, delivered, completedBy>>

\* a loop that does not read self.running: while True
loop_test_deaf(s) ==
    /\ s.pc = "wait"
    /\ IF get_due_reminders = <<>>
       THEN UNCHANGED chk
       ELSE chk' = Moved(s, [pc |-> "mark", due |-> get_due_reminders,
                             messages |-> <<>>])
    /\ UNCHANGED <<now, reminders, running, checker_thread, rfg, delivered, completedBy>>

\* _checker_loop between two cycles: time.sleep(interval) returns, the
\* while test reads self.running and check_reminders fetches the due rows;
\* with nothing due the cycle is empty and the loop sleeps again
loop_test(s) ==
    /\ s.pc = "wait"
    /\ IF running
       THEN IF get_due_reminders = <<>>
            THEN UNCHANGED chk
            ELSE chk' = Moved(s, [pc |-> "mark", due |-> get_due_reminders,
                                  messages |-> <<>>])
       ELSE chk' = Ended(s)
    /\ UNCHANGED <<now, reminders, running, checker_thread, rfg, delivered, completedBy>>

\* check_reminders: one iteration of "for reminder in due_reminders";
\* after the last one the messages are returned to _checker_loop
loop_mark(s) ==
    /\ s.pc = "mark"
    /\ LET id == Head(s.due)
       IN /\ chk' = Moved(s, [pc |-> IF Tail(s.due) = <<>> THEN "deliver" ELSE "mark",
                              due |-> Tail(s.due),
                              messages |-> Append(s.messages, id)])
          /\ reminders' = complete_reminder(reminders, id)
          /\ completedBy' = [completedBy EXCEPT ![id] = "checker"]
    /\ UNCHANGED <<now, running, checker_thread, rfg, delivered>>

\* _checker_loop: one iteration of "for message in due_messages"; after the
\* last one the loop sleeps
loop_deliver(s) ==
    /\ s.pc = "deliver"
    /\ chk' = Moved(s, [pc |-> IF Tail(s.messages) = <<>> THEN "wait" ELSE "deliver",
                        due |-> <<>>,
                        messages |-> Tail(s.messages)])
    /\ delivered' = [delivered EXCEPT ![Head(s.messages)] = @ + 1]
    /\ UNCHANGED <<now, reminders, running, checker_thread, rfg, completedBy>>

\* check_reminders line 145: memory.complete_reminder raises (the store is
\* locked or gone); nothing catches it and the thread ends
loop_mark_raises(s) ==
    /\ s.pc = "mark"
    /\ chk' = Ended(s)
    /\ UNCHANGED <<now, reminders, running, checker_thread, rfg, delivered, completedBy>>

\* _checker_loop line 174: notification_callback is called and raises;
\* nothing catches it and the thread ends
loop_deliver_raises(s) ==
    /\ s.pc = "deliver"
    /\ delivered' = [delivered EXCEPT ![Head(s.messages)] = @ + 1]
    /\ chk' = Ended(s)
    /\ UNCHANGED <<now, reminders, running, checker_thread, rfg, completedBy>>

(* ------------------------- features/study.py --------------------------- *)
DEFAULT_WORK_DURATION == 25
DEFAULT_SHORT_BREAK == 5
DEFAULT_LONG_BREAK == 15
POMODOROS_UNTIL_LONG_BREAK == 4
SecondsPerMinute == 60
MinLoggedMinutes == 5

\* the durations and subjects the callers pass
FocusDurations == {1}
LongDurations == {6}
BreakDurations == {1}
Subjects == {"", "math"}

\* the message a StudyTimer call returns, with the minutes it reports
Returned(kind, minutes) == [kind |-> kind, minutes |-> minutes, session |-> session_start]

\* a thread just created: about to run line 86 of _run_timer; cur marks the
\* thread self.timer_thread refers to
NewTimer == [pc |-> "begin", last |-> 0, tmp |-> 0, cur |-> TRUE]

\* the live threads once self.timer_thread is rebound to a new thread
Superseded == LET old == BagToSet(thr)
              IN [s \in {[x EXCEPT !.cur = FALSE] : x \in old} |->
                     (IF [s EXCEPT !.cur = TRUE] \in old THEN thr[[s EXCEPT !.cur = TRUE]] ELSE 0)
                     + (IF [s EXCEPT !.cur = FALSE] \in old THEN thr[[s EXCEPT !.cur = FALSE]] ELSE 0)]

TMoved(s, s2) == (thr (-) SetToBag({s})) (+) SetToBag({s2})
TEnded(s) == thr (-) SetToBag({s})
At(s, pc) == [s EXCEPT !.pc = pc, !.tmp = 0]

\* Memory.log_study_session: INSERT INTO study_sessions
log_study_session(subject, duration_minutes, started_at, completed) ==
    Append(study_sessions, [subject |-> subject, duration_minutes |-> duration_minutes,
                            started_at |-> started_at, completed |-> completed])

\* self.current_subject or "General"
SubjectOrGeneral == IF current_subject = "" THEN "General" ELSE current_subject

\* line 167: elapsed_minutes
elapsed_minutes == (session_duration * SecondsPerMinute - remaining_seconds) \div SecondsPerMinute

\* a threshold that drops a session stopped after exactly five minutes
worth_logging_strict(minutes) == minutes > MinLoggedMinutes

\* line 169: the record of a stopped session is kept
worth_logging(minutes) == minutes >= MinLoggedMinutes

\* line 119-120: the break announced after a completed session
break_duration(count) ==
    IF count % POMODOROS_UNTIL_LONG_BREAK = 0 THEN DEFAULT_LONG_BREAK ELSE DEFAULT_SHORT_BREAK

TInit(max_starts) ==
    /\ is_active = FALSE
    /\ is_break = FALSE
    /\ current_subject = ""
    /\ session_start = 0
    /\ session_duration = DEFAULT_WORK_DURATION
    /\ remaining_seconds = 0
    /\ pomodoro_count = 0
    /\ stop_event = FALSE
    /\ thr = EmptyBag
    /\ tfg = "idle"
    /\ result = Returned("none", 0)
    /\ starts = 0
    /\ limit = max_starts
    /\ study_sessions = <<>>
    /\ complete_calls = <<>>
    /\ break_calls = 0
    /\ stop_requests = {}
    /\ ticks = 0

\* a start_session guard that lets a session start during a break
session_in_progress_focus_only == is_active /\ ~is_break

\* line 61: the guard of start_session
session_in_progress == is_active

\* StudyTimer.start_session
start_session(duration_minutes, subject) ==
    /\ tfg = "idle"
    /\ IF session_in_progress
       THEN /\ result' = Returned("already in progress", 0)
            /\ UNCHANGED <<is_active, is_break, current_subject, session_start,
                           session_duration, remaining_seconds, stop_event, thr, starts, ticks>>
       ELSE /\ starts < limit
            /\ BagCardinality(thr) < MaxTimers
            /\ session_duration' = duration_minutes
            /\ current_subject' = subject
            /\ starts' = starts + 1
            /\ ticks' = 0
            /\ session_start' = starts + 1
            /\ remaining_seconds' = duration_minutes * SecondsPerMinute
            /\ is_active' = TRUE
            /\ is_break' = FALSE
            /\ stop_event' = FALSE
            /\ thr' = Superseded (+) SetToBag({NewTimer})
            /\ result' = Returned("session started", 0)
    /\ UNCHANGED <<pomodoro_count, tfg, limit, study_sessions, complete_calls, break_calls>>
    /\ UNCHANGED stop_requests

\* a start_break guard that turns nothing down
focus_in_progress_ignored == FALSE

\* line 135: the guard of start_break
focus_in_progress == is_active /\ ~is_break

\* StudyTimer.start_break
start_break(duration_minutes) ==
    /\ tfg = "idle"
    /\ IF focus_in_progress
       THEN /\ result' = Returned("in a focus session", 0)
            /\ UNCHANGED <<is_active, is_break, remaining_seconds, stop_event, thr, starts, ticks>>
       ELSE /\ starts < limit
            /\ BagCardinality(thr) < MaxTimers
            /\ starts' = starts + 1
            /\ ticks' = 0
            /\ remaining_seconds' = duration_minutes * SecondsPerMinute
            /\ is_active' = TRUE
            /\ is_break' = TRUE
            /\ stop_event' = FALSE
            /\ thr' = Superseded (+) SetToBag({NewTimer})
            /\ result' = Returned("break started", 0)
    /\ UNCHANGED <<current_subject, session_start, session_duration, pomodoro_count, tfg,
                   limit, study_sessions, complete_calls, break_calls>>
    /\ UNCHANGED stop_requests

\* StudyTimer.stop_session, lines 155-158: the guard and the stop signal
stop_session ==
    /\ tfg = "idle"
    /\ IF ~is_active
       THEN /\ result' = Returned("no session", 0)
            /\ UNCHANGED <<stop_event, tfg, stop_requests>>
       ELSE /\ stop_event' = TRUE
            /\ tfg' = "join"
            /\ stop_requests' = IF is_break THEN stop_requests
                                 ELSE stop_requests \cup {session_start}
            /\ UNCHANGED result
    /\ UNCHANGED <<is_active, is_break, current_subject, session_start, session_duration,
                   remaining_seconds, pomodoro_count, thr, starts, limit, study_sessions,
                   complete_calls, break_calls, ticks>>

\* a thread inside a call that can take longer than the 2 s of the join:
\* the tick / completion callbacks and the store write
Blocked(s) == s.pc \in {"tick", "log", "call", "bcall"}

\* timer_thread.join(timeout=2) returns: the thread has ended, or it has not
\* ended within 2 s (the countdown loop itself wakes every second)
JoinReturns ==
    \/ \A s \in BagToSet(thr) : ~s.cur
    \/ \E s \in BagToSet(thr) : s.cur /\ Blocked(s)

\* StudyTimer.stop_session, lines 159-179: after the join
stop_session_finish ==
    /\ tfg = "join"
    /\ JoinReturns
    /\ tfg' = "idle"
    /\ is_active' = FALSE
    /\ IF is_break
       THEN /\ is_break' = FALSE
            /\ result' = Returned("break ended", 0)
            /\ UNCHANGED study_sessions
       ELSE /\ UNCHANGED is_break
            /\ result' = Returned("stopped", elapsed_minutes)
            /\ IF worth_logging(elapsed_minutes)
               THEN study_sessions' = log_study_session(SubjectOrGeneral, elapsed_minutes,
                                                        session_start, FALSE)
               ELSE UNCHANGED study_sessions
    /\ UNCHANGED <<current_subject, session_start, session_duration, remaining_seconds,
                   pomodoro_count, stop_event, thr, starts, limit, complete_calls, break_calls>>
    /\ UNCHANGED <<stop_requests, ticks>>

\* StudyTimer.reset_pomodoro_count
reset_pomodoro_count ==
    /\ tfg = "idle"
    /\ pomodoro_count # 0
    /\ pomodoro_count' = 0
    /\ result' = Returned("reset", 0)
    /\ UNCHANGED <<is_active, is_break, current_subject, session_start, session_duration,
                   remaining_seconds, stop_event, thr, tfg, starts, limit, study_sessions,
                   complete_calls, break_calls>>
    /\ UNCHANGED <<stop_requests, ticks>>

\* _run_timer line 88 (the while test) and line 97: with remaining seconds
\* left and no stop signal the thread s, its locals now s2, sleeps one second;
\* at zero without a stop signal it enters _complete_session; else it ends
Continue(s, s2, remaining) ==
    IF remaining > 0 /\ ~stop_event
    THEN TMoved(s, At(s2, "sleep"))
    ELSE IF ~stop_event
         THEN TMoved(s, At(s2, "complete"))
         ELSE TEnded(s)

\* _run_timer line 86, then the while test
run_begin(s) ==
    /\ s.pc = "begin"
    /\ thr' = Continue(s, [s EXCEPT !.last = remaining_seconds \div SecondsPerMinute],
                       remaining_seconds)
    /\ UNCHANGED <<is_active, is_break, current_subject, session_start, session_duration,
                   remaining_seconds, pomodoro_count, stop_event, tfg, result, starts, limit,
                   study_sessions, complete_calls, break_calls>>
    /\ UNCHANGED <<stop_requests, ticks>>

\* _run_timer lines 89-94: the sleep ends, remaining_seconds is decremented
\* and the minute is compared with the last one announced; on a new minute
\* on_tick is called, else the while test follows
run_sleep(s) ==
    /\ s.pc = "sleep"
    /\ remaining_seconds' = remaining_seconds - 1
    /\ LET current_minute == remaining_seconds' \div SecondsPerMinute
       IN IF current_minute # s.last
          THEN /\ thr' = TMoved(s, [s EXCEPT !.pc = "tick", !.tmp = current_minute])
               /\ ticks' = ticks + 1
          ELSE /\ thr' = Continue(s, s, remaining_seconds')
               /\ UNCHANGED ticks
    /\ UNCHANGED <<is_active, is_break, current_subject, session_start, session_duration,
                   pomodoro_count, stop_event, tfg, result, starts, limit,
                   study_sessions, complete_calls, break_calls>>
    /\ UNCHANGED stop_requests

\* _run_timer lines 94-95: on_tick returns, last_minute_announced is set,
\* then the while test
run_tick(s) ==
    /\ s.pc = "tick"
    /\ thr' = Continue(s, [s EXCEPT !.last = s.tmp], remaining_seconds)
    /\ UNCHANGED <<is_active, is_break, current_subject, session_start, session_duration,
                   remaining_seconds, pomodoro_count, stop_event, tfg, result, starts, limit,
                   study_sessions, complete_calls, break_calls>>
    /\ UNCHANGED <<stop_requests, ticks>>

\* _complete_session line 102: the branch on is_break
complete_branch(s) ==
    /\ s.pc = "complete"
    /\ thr' = TMoved(s, At(s, IF is_break THEN "b1" ELSE "log"))
    /\ UNCHANGED <<is_active, is_break, current_subject, session_start, session_duration,
                   remaining_seconds, pomodoro_count, stop_event, tfg, result, starts, limit,
                   study_sessions, complete_calls, break_calls>>
    /\ UNCHANGED <<stop_requests, ticks>>

\* _complete_session lines 103-104
complete_break(s) ==
    /\ s.pc = "b1"
    /\ is_active' = FALSE
    /\ is_break' = FALSE
    /\ thr' = TMoved(s, At(s, "bcall"))
    /\ UNCHANGED <<current_subject, session_start, session_duration,
                   remaining_seconds, pomodoro_count, stop_event, tfg, result, starts, limit,
                   study_sessions, complete_calls, break_calls>>
    /\ UNCHANGED <<stop_requests, ticks>>

\* _complete_session lines 105-106: on_break_complete()
complete_break_call(s) ==
    /\ s.pc = "bcall"
    /\ break_calls' = break_calls + 1
    /\ thr' = TEnded(s)
    /\ UNCHANGED <<is_active, is_break, current_subject, session_start, session_duration,
                   remaining_seconds, pomodoro_count, stop_event, tfg, result, starts, limit,
                   study_sessions, complete_calls>>
    /\ UNCHANGED <<stop_requests, ticks>>

\* _complete_session lines 108-114: the completed=True record
complete_log(s) ==
    /\ s.pc = "log"
    /\ study_sessions' = log_study_session(SubjectOrGeneral, session_duration, session_start, TRUE)
    /\ thr' = TMoved(s, At(s, "inc"))
    /\ UNCHANGED <<is_active, is_break, current_subject, session_start, session_duration,
                   remaining_seconds, pomodoro_count, stop_event, tfg, result, starts, limit,
                   complete_calls, break_calls>>
    /\ UNCHANGED <<stop_requests, ticks>>

\* _complete_session line 116: self.pomodoro_count += 1
complete_inc(s) ==
    /\ s.pc = "inc"
    /\ pomodoro_count' = pomodoro_count + 1
    /\ thr' = TMoved(s, At(s, "call"))
    /\ UNCHANGED <<is_active, is_break, current_subject, session_start, session_duration,
                   remaining_seconds, stop_event, tfg, result, starts, limit,
                   study_sessions, complete_calls, break_calls>>
    /\ UNCHANGED <<stop_requests, ticks>>

\* _complete_session lines 118-121: on_session_complete(count, break_duration)
complete_call(s) ==
    /\ s.pc = "call"
    /\ complete_calls' = Append(complete_calls,
                                [session |-> session_start, count |-> pomodoro_count,
                                 break |-> break_duration(pomodoro_count)])
    /\ thr' = TMoved(s, At(s, "end"))
    /\ UNCHANGED <<is_active, is_break, current_subject, session_start, session_duration,
                   remaining_seconds, pomodoro_count, stop_event, tfg, result, starts, limit,
                   study_sessions, break_calls>>
    /\ UNCHANGED <<stop_requests, ticks>>

\* _complete_session line 123
complete_end(s) ==
    /\ s.pc = "end"
    /\ is_active' = FALSE
    /\ thr' = TEnded(s)
    /\ UNCHANGED <<is_break, current_subject, session_start, session_duration,
                   remaining_seconds, pomodoro_count, stop_event, tfg, result, starts, limit,
                   study_sessions, complete_calls, break_calls>>
    /\ UNCHANGED <<stop_requests, ticks>>

\* _run_timer line 94, _complete_session lines 108 and 121: on_tick, the
\* store write or on_session_complete raises; nothing catches it and the
\* thread ends
timer_raises(s) ==
    /\ s.pc \in {"tick", "log", "call"}
    /\ thr' = TEnded(s)
    /\ UNCHANGED <<is_active, is_break, current_subject, session_start, session_duration,
                   remaining_seconds, pomodoro_count, stop_event, tfg, result, starts, limit,
                   study_sessions, complete_calls, break_calls, stop_requests, ticks>>

(* ------------------ core/ears.py: text of an utterance ------------------ *)
WAKE_WORD == <<"a", "r", "t", "h", "u", "r">>

\* the segments of the Whisper model joined by " ": what it makes of an utterance
ModelTexts ==
    { <<" ", "h", "e", "l", "l", "o", " ", "t", "h", "e", "r", "e">>,
      <<" ", "a", "r", "t", "h", "u", "r", " ", "w", "h", "a", "t", "'", "s", " ", "u", "p">>,
      <<"A", "r", "t", "h", "u", "r", ",", " ", "s", "t", "o", "p", " ">>,
      <<" ", "h", "e", "y", " ", "a", "r", "t", "h", "u", "r", ".">>,
      <<"A", "r", "t", "h", "u", "r">>,
      <<"o", "k", " ", "G", "o", "o", "d", "b", "y", "e">>,
      <<" ", "t", "e", "l", "l", " ", "a", "r", "t", "h", "u", "r", " ", "b", "y", "e">>,
      <<"a", "r", "t", "h", "u", "r", " ", "h", "i", " ", "a", "r", "t", "h", "u", "r">>,
      <<" ", "a", "r", "t", "h", "u", "r", " ", ".", ",", " ", "g", "o">> }

\* one call of transcribe: the length of the audio, whether a model is
\* loaded, whether model.transcribe or its segments raise, and the text
Attempts ==
    {[audio |-> 1, loaded |-> TRUE, raises |-> FALSE, text |-> t] : t \in ModelTexts}
    \cup {[audio |-> 0, loaded |-> TRUE, raises |-> FALSE, text |-> <<>>],
          [audio |-> 1, loaded |-> FALSE, raises |-> FALSE, text |-> <<>>],
          [audio |-> 1, loaded |-> TRUE, raises |-> TRUE, text |-> <<>>],
          [audio |-> 1, loaded |-> TRUE, raises |-> FALSE, text |-> <<>>]}

\* str.lower() on the letters the transcriptions use
lower_char(c) ==
    CASE c = "A" -> "a"
      [] c = "G" -> "g"
      [] OTHER -> c

lower(text) == [i \in 1..Len(text) |-> lower_char(text[i])]

\* "w in text" and text.find(w): the offsets at which w occurs
Occurrences(text, w) ==
    {i \in 0..(Len(text) - Len(w)) : SubSeq(text, i + 1, i + Len(w)) = w}

Contains(text, w) == Occurrences(text, w) # {}

\* the offset of the last occurrence of w instead of the first
rfind(text, w) == CHOOSE i \in Occurrences(text, w) : \A j \in Occurrences(text, w) : j <= i

\* text.find(w), for a text that contains w
find(text, w) == CHOOSE i \in Occurrences(text, w) : \A j \in Occurrences(text, w) : i <= j

\* text[n:]
From(text, n) == SubSeq(text, n + 1, Len(text))

\* str.lstrip(chars)
RECURSIVE lstrip(_, _)
lstrip(text, chars) ==
    IF text # <<>> /\ Head(text) \in chars THEN lstrip(Tail(text), chars) ELSE text

\* str.rstrip() of whitespace
RECURSIVE rstrip(_)
rstrip(text) ==
    IF text # <<>> /\ text[Len(text)] = " " THEN rstrip(SubSeq(text, 1, Len(text) - 1)) ELSE text

\* str.strip()
strip(text) == rstrip(lstrip(text, {" "}))

\* a transcribe that returns the message of the failure as the text
transcribe_reporting(attempt) ==
    IF ~attempt.loaded THEN <<"n", "o", " ", "m", "o", "d", "e", "l">>
    ELSE IF attempt.audio = 0 THEN <<"n", "o", " ", "a", "u", "d", "i", "o">>
    ELSE IF attempt.raises THEN <<"e", "r", "r", "o", "r">>
    ELSE strip(attempt.text)

\* Ears.transcribe
transcribe(attempt) ==
    IF ~attempt.loaded THEN <<>>
    ELSE IF attempt.audio = 0 THEN <<>>
    ELSE IF attempt.raises THEN <<>>
    ELSE strip(attempt.text)

\* the texts transcribe may return
Transcriptions == {transcribe(attempt) : attempt \in Attempts}

\* the empty command in the place of None
EmptyCommand == [some |-> TRUE, command |-> <<>>]

\* the value listen_with_wake_word returns: None, or a command
None == [some |-> FALSE, command |-> <<>>]
Some(command) == [some |-> TRUE, command |-> command]

\* Ears.listen_with_wake_word, for the text the model returns (no audio: <<>>)
listen_with_wake_word(transcribed) ==
    LET text == lower(transcribed)
    IN IF Contains(text, WAKE_WORD)
       THEN LET wake_idx == find(text, WAKE_WORD)
                command == strip(From(text, wake_idx + Len(WAKE_WORD)))
            IN Some(strip(lstrip(lstrip(command, {","}), {"."})))
       ELSE None

\* a listen_once that looks for the wake word again
listen_once_rescanned(transcribed) == listen_with_wake_word(transcribed).command

\* Ears.listen_once, for the text the model returns (no audio: <<>>)
listen_once(transcribed) == transcribed

(* --------------------- core/ears.py: record_audio ----------------------- *)
\* durations in tenths of a second, levels in hundredths
chunk_duration == 5
silence_threshold == 1
silence_duration == 15
max_recording_duration == 300

\* the max_duration arguments of the callers: None, 10 s, 5 s
MaxDurations == {0, 100, 50}

\* what the microphone hears: runs of frames at a level at or above the
\* threshold, each followed by a run of frames at level 0
Sources == {[loud |-> a, quiet |-> b, level |-> l] :
               a \in 0..MaxRun, b \in 0..MaxRun, l \in {silence_threshold, silence_threshold + 1}}
           \ {[loud |-> 0, quiet |-> 0, level |-> l] : l \in {silence_threshold, silence_threshold + 1}}

\* the n-th frame the stream of recording c delivers: indata.copy()
Frame(src, n, c) ==
    [n |-> n,
     cycle |-> c,
     level |-> IF ((n - 1) % (src.loud + src.quiet)) < src.loud THEN src.level ELSE 0]

\* a silence that takes one frame more to end the recording
chunks_for_silence_more == silence_duration \div chunk_duration + 1

\* line 85
chunks_for_silence == silence_duration \div chunk_duration

\* a cap that lets one frame more through
max_chunks_more(duration) ==
    (IF duration # 0 THEN duration ELSE max_recording_duration) \div chunk_duration + 1

\* lines 82 and 86: max_chunks
max_chunks(duration) ==
    (IF duration # 0 THEN duration ELSE max_recording_duration) \div chunk_duration

EInit ==
    /\ is_recording = FALSE
    /\ audio_queue = <<>>
    /\ stream_open = FALSE
    /\ source = [loud |-> 1, quiet |-> 0, level |-> silence_threshold]
    /\ produced = 0
    /\ max_duration = 0
    /\ recorded_chunks = <<>>
    /\ silence_chunks = 0
    /\ epc = "idle"
    /\ utterance = <<>>
    /\ cycle = 0
    /\ stop_at = -1

\* record_audio lines 82-86: the call is made and the locals are set
record_audio(duration, src) ==
    /\ epc = "idle"
    /\ max_duration' = duration
    /\ recorded_chunks' = <<>>
    /\ silence_chunks' = 0
    /\ source' = src
    /\ produced' = 0
    /\ utterance' = <<>>
    /\ cycle' = 1 - cycle
    /\ epc' = "begin"
    /\ UNCHANGED <<is_recording, audio_queue, stream_open, stop_at>>

\* record_audio lines 88-97: is_recording is set and the stream is opened
record_begin ==
    /\ epc = "begin"
    /\ is_recording' = TRUE
    /\ stream_open' = TRUE
    /\ epc' = "loop"
    /\ UNCHANGED <<audio_queue, source, produced, max_duration, recorded_chunks,
                   silence_chunks, utterance, cycle, stop_at>>

\* Ears._audio_callback: the stream delivers a frame
audio_callback ==
    /\ stream_open
    /\ Len(audio_queue) < MaxQueue
    /\ audio_queue' = Append(audio_queue, Frame(source, produced + 1, cycle))
    /\ produced' = produced + 1
    /\ UNCHANGED <<is_recording, stream_open, source, max_duration, recorded_chunks,
                   silence_chunks, epc, utterance, cycle, stop_at>>

\* record_audio lines 98-109: the while test, and one frame dequeued
record_chunk ==
    /\ epc = "loop"
    /\ IF is_recording /\ Len(recorded_chunks) < max_chunks(max_duration)
       THEN /\ audio_queue # <<>>
            /\ LET audio_chunk == Head(audio_queue)
               IN /\ audio_queue' = Tail(audio_queue)
                  /\ recorded_chunks' = Append(recorded_chunks, audio_chunk)
                  /\ IF audio_chunk.level < silence_threshold
                     THEN /\ silence_chunks' = silence_chunks + 1
                          /\ epc' = IF silence_chunks' >= chunks_for_silence
                                       /\ Len(recorded_chunks') > 2
                                    THEN "exit" ELSE "loop"
                     ELSE /\ silence_chunks' = 0
                          /\ UNCHANGED epc
       ELSE /\ epc' = "exit"
            /\ UNCHANGED <<audio_queue, recorded_chunks, silence_chunks>>
    /\ UNCHANGED <<is_recording, stream_open, source, produced, max_duration, utterance,
                   cycle, stop_at>>

\* a get() without a timeout: the loop goes on waiting for a frame
record_empty_waits ==
    /\ epc = "loop"
    /\ is_recording /\ Len(recorded_chunks) < max_chunks(max_duration)
    /\ audio_queue = <<>>
    /\ UNCHANGED evars

\* record_audio lines 100 and 111-112: no frame within a second, queue.Empty
record_empty ==
    /\ epc = "loop"
    /\ is_recording /\ Len(recorded_chunks) < max_chunks(max_duration)
    /\ audio_queue = <<>>
    /\ epc' = "exit"
    /\ UNCHANGED <<is_recording, audio_queue, stream_open, source, produced, max_duration,
                   recorded_chunks, silence_chunks, utterance, cycle, stop_at>>

\* a return that leaves the frames still queued in the queue
record_return_undrained ==
    /\ epc = "exit"
    /\ stream_open' = FALSE
    /\ is_recording' = FALSE
    /\ utterance' = recorded_chunks
    /\ stop_at' = -1
    /\ epc' = "idle"
    /\ UNCHANGED <<audio_queue, source, produced, max_duration, recorded_chunks,
                   silence_chunks, cycle>>

\* record_audio lines 97 and 114-124: the stream is closed, the queue is
\* emptied and the chunks are returned as one array
record_return ==
    /\ epc = "exit"
    /\ stream_open' = FALSE
    /\ is_recording' = FALSE
    /\ audio_queue' = <<>>
    /\ utterance' = recorded_chunks
    /\ stop_at' = -1
    /\ epc' = "idle"
    /\ UNCHANGED <<source, produced, max_duration, recorded_chunks, silence_chunks, cycle>>

\* Ears.stop_listening, called from another thread while record_audio runs
stop_listening ==
    /\ epc # "idle"
    /\ stop_at = -1
    /\ is_recording' = FALSE
    /\ stop_at' = Len(recorded_chunks)
    /\ UNCHANGED <<audio_queue, stream_open, source, produced, max_duration,
                   recorded_chunks, silence_chunks, epc, utterance, cycle>>

(* ------------------------ interface/voice_mode.py ----------------------- *)
conversation_timeout == 30

\* the seconds that pass between two steps of the main loop
Delays == {1, conversation_timeout}

\* end phrases without the goodbyes
EndPhrasesFewer == { <<"s", "e", "e", " ", "y", "o", "u">>, <<"g", "o", "o", "d", " ", "n", "i", "g", "h", "t">> }

\* _handle_input line 142 and line 145: the phrases looked for
EndPhrases == { <<"g", "o", "o", "d", "b", "y", "e">>,
                <<"b", "y", "e">>,
                <<"s", "e", "e", " ", "y", "o", "u">>,
                <<"g", "o", "o", "d", " ", "n", "i", "g", "h", "t">> }
StopPhrases == { <<"s", "t", "o", "p">>,
                 <<"c", "a", "n", "c", "e", "l">>,
                 <<"q", "u", "i", "e", "t">>,
                 <<"s", "h", "u", "t", " ", "u", "p">> }

\* any(word in lower_input for word in [...])
AnyIn(phrases, lower_input) == \E word \in phrases : Contains(lower_input, word)

Listened(call, text, value) ==
    [call |-> call, text |-> text, some |-> value.some, command |-> value.command]

GInit ==
    /\ clock = 0
    /\ conversation_active = FALSE
    /\ last_interaction = 0
    /\ gpc = "top"
    /\ heard = <<>>
    /\ listened = Listened("none", <<>>, None)
    /\ commands = <<>>
    /\ routed = <<>>
    /\ greetings = 0

\* time.time() moves on
Advance(d) ==
    /\ clock + d <= MaxClock
    /\ clock' = clock + d
    /\ UNCHANGED <<conversation_active, last_interaction, gpc, heard, listened,
                   commands, routed, greetings>>

\* the idle test of line 103 with a limit the conversation outlives by a second
idle_too_long_late == clock - last_interaction > conversation_timeout + 1

\* line 103: the idle test
idle_too_long == clock - last_interaction > conversation_timeout

\* an iteration in a conversation that never looks at the time
main_loop_active_patient ==
    /\ gpc = "top"
    /\ conversation_active
    /\ Len(commands) < MaxCommands
    /\ gpc' = "listen_once"
    /\ UNCHANGED <<clock, conversation_active, last_interaction, heard, listened,
                   commands, routed, greetings>>

\* _main_loop lines 102-106: an iteration that starts in a conversation
main_loop_active ==
    /\ gpc = "top"
    /\ conversation_active
    /\ Len(commands) < MaxCommands
    /\ IF idle_too_long
       THEN /\ conversation_active' = FALSE
            /\ listened' = Listened("none", <<>>, None)
            /\ UNCHANGED gpc
       ELSE /\ gpc' = "listen_once"
            /\ UNCHANGED <<conversation_active, listened>>
    /\ UNCHANGED <<clock, last_interaction, heard, commands, routed, greetings>>

\* a loop that hands the text on without noting the time
main_loop_listen_once_stale(transcribed) ==
    /\ gpc = "listen_once"
    /\ LET text == listen_once(transcribed)
       IN /\ listened' = Listened("listen_once", transcribed, Some(text))
          /\ IF text # <<>>
             THEN /\ heard' = text
                  /\ gpc' = "handle"
             ELSE /\ gpc' = "top"
                  /\ UNCHANGED heard
    /\ UNCHANGED <<clock, conversation_active, last_interaction, commands, routed, greetings>>

\* _main_loop lines 108-110: listen_once returns
main_loop_listen_once(transcribed) ==
    /\ gpc = "listen_once"
    /\ LET text == listen_once(transcribed)
       IN /\ listened' = Listened("listen_once", transcribed, Some(text))
          /\ IF text # <<>>
             THEN /\ last_interaction' = clock
                  /\ heard' = text
                  /\ gpc' = "handle"
             ELSE /\ gpc' = "top"
                  /\ UNCHANGED <<last_interaction, heard>>
    /\ UNCHANGED <<clock, conversation_active, commands, routed, greetings>>

\* _main_loop lines 113-123: an iteration that starts outside a conversation
main_loop_wake(transcribed) ==
    /\ gpc = "top"
    /\ ~conversation_active
    /\ Len(commands) < MaxCommands
    /\ LET value == listen_with_wake_word(transcribed)
       IN /\ listened' = Listened("listen_with_wake_word", transcribed, value)
          /\ IF value.some
             THEN /\ conversation_active' = TRUE
                  /\ last_interaction' = clock
                  /\ IF value.command # <<>>
                     THEN /\ heard' = value.command
                          /\ gpc' = "handle"
                          /\ UNCHANGED greetings
                     ELSE /\ greetings' = greetings + 1
                          /\ UNCHANGED <<heard, gpc>>
             ELSE UNCHANGED <<conversation_active, last_interaction, heard, gpc, greetings>>
    /\ UNCHANGED <<clock, commands, routed>>

\* VoiceInterface._handle_input
handle_input ==
    /\ gpc = "handle"
    /\ gpc' = "top"
    /\ heard' = <<>>
    /\ LET user_input == strip(heard)
           lower_input == lower(user_input)
       IN IF user_input = <<>>
          THEN UNCHANGED <<conversation_active, commands, routed>>
          ELSE /\ commands' = Append(commands, user_input)
               /\ IF AnyIn(EndPhrases, lower_input)
                  THEN /\ conversation_active' = FALSE
                       /\ UNCHANGED routed
                  ELSE IF AnyIn(StopPhrases, lower_input)
                       THEN UNCHANGED <<conversation_active, routed>>
                       ELSE /\ routed' = Append(routed, user_input)
                            /\ UNCHANGED conversation_active
    /\ UNCHANGED <<clock, last_interaction, listened, greetings>>

\* Voice.speak: it says the text and writes Voice.is_speaking only, no
\* field of VoiceInterface
speak == UNCHANGED gvars

\* a reminder callback that opens a conversation for the reminder
speak_reminder_waking ==
    /\ conversation_active' = TRUE
    /\ last_interaction' = clock
    /\ UNCHANGED <<clock, gpc, heard, listened, commands, routed, greetings>>

\* VoiceInterface._speak_reminder, the notification callback of the checker
speak_reminder == speak

\* VoiceInterface._on_study_complete: the message is built and spoken
on_study_complete == speak

\* VoiceInterface._on_break_complete
on_break_complete == speak

\* _main_loop lines 108 and 113: inside listen_once or listen_with_wake_word
\* record_audio has set is_recording (line 88) and sd.InputStream raises when
\* it is opened (lines 91-97); record_audio catches queue.Empty only,
\* listen_once, listen_with_wake_word and _main_loop catch nothing and start
\* catches KeyboardInterrupt only: the exception leaves _main_loop
main_loop_audio_raises ==
    /\ \/ gpc = "listen_once"
       \/ gpc = "top" /\ ~conversation_active /\ Len(commands) < MaxCommands
    /\ epc = "idle"
    /\ gpc' = "raised"
    /\ is_recording' = TRUE
    /\ UNCHANGED <<clock, conversation_active, last_interaction, heard, listened,
                   commands, routed, greetings>>
    /\ UNCHANGED <<audio_queue, stream_open, source, produced, max_duration,
                   recorded_chunks, silence_chunks, epc, utterance, cycle, stop_at>>

(* --------------------------- specifications ---------------------------- *)
Init == RInit /\ TInit(MaxStarts) /\ GInit /\ EInit

\* the reminder checker and its callers
NextReminders ==
    \/ Tick /\ UNCHANGED nonreminder
    \/ \E at \in 0..MaxTime : add_reminder(at) /\ UNCHANGED nonreminder
    \/ \E k \in 0..MaxReminders : cancel_reminder(k) /\ UNCHANGED nonreminder
    \/ start_checker /\ UNCHANGED nonreminder
    \/ stop_checker /\ UNCHANGED nonreminder
    \/ stop_checker_join /\ UNCHANGED nonreminder
    \/ \E s \in BagToSet(chk) : loop_test(s) /\ UNCHANGED nonreminder
    \/ \E s \in BagToSet(chk) : loop_mark(s) /\ UNCHANGED nonreminder
    \/ \E s \in BagToSet(chk) : loop_deliver(s) /\ UNCHANGED nonreminder

SpecReminders == Init /\ [][NextReminders]_vars

\* the checker, its starts and stops and the reminders that come due, with
\* threads that keep running: join(timeout=2) returns, and a checker thread
\* takes its next step (every sleep(interval) ends, the store and the
\* callback return)
NextStop ==
    \/ Tick /\ UNCHANGED nonreminder
    \/ \E at \in 0..MaxTime : add_reminder(at) /\ UNCHANGED nonreminder
    \/ start_checker /\ UNCHANGED nonreminder
    \/ stop_checker /\ UNCHANGED nonreminder
    \/ stop_checker_join /\ UNCHANGED nonreminder
    \/ \E s \in BagToSet(chk) : loop_test(s) /\ UNCHANGED nonreminder
    \/ \E s \in BagToSet(chk) : loop_mark(s) /\ UNCHANGED nonreminder
    \/ \E s \in BagToSet(chk) : loop_deliver(s) /\ UNCHANGED nonreminder

LiveStop ==
    /\ Init /\ [][NextStop]_vars
    /\ WF_vars(stop_checker_join /\ UNCHANGED nonreminder)
    /\ WF_vars(\E s \in BagToSet(chk) :
                  (loop_test(s) \/ loop_mark(s) \/ loop_deliver(s)) /\ UNCHANGED nonreminder)

\* the study timer and one caller: one-minute sessions and breaks
NextTimer ==
    \/ \E d \in FocusDurations, subject \in Subjects :
           start_session(d, subject) /\ UNCHANGED nontimer
    \/ \E d \in BreakDurations : start_break(d) /\ UNCHANGED nontimer
    \/ stop_session /\ UNCHANGED nontimer
    \/ stop_session_finish /\ UNCHANGED nontimer
    \/ reset_pomodoro_count /\ UNCHANGED nontimer
    \/ \E s \in BagToSet(thr) : run_begin(s) /\ UNCHANGED nontimer
    \/ \E s \in BagToSet(thr) : run_sleep(s) /\ UNCHANGED nontimer
    \/ \E s \in BagToSet(thr) : run_tick(s) /\ UNCHANGED nontimer
    \/ \E s \in BagToSet(thr) : complete_branch(s) /\ UNCHANGED nontimer
    \/ \E s \in BagToSet(thr) : complete_break(s) /\ UNCHANGED nontimer
    \/ \E s \in BagToSet(thr) : complete_break_call(s) /\ UNCHANGED nontimer
    \/ \E s \in BagToSet(thr) : complete_log(s) /\ UNCHANGED nontimer
    \/ \E s \in BagToSet(thr) : complete_inc(s) /\ UNCHANGED nontimer
    \/ \E s \in BagToSet(thr) : complete_call(s) /\ UNCHANGED nontimer
    \/ \E s \in BagToSet(thr) : complete_end(s) /\ UNCHANGED nontimer

SpecTimer == Init /\ [][NextTimer]_vars

\* the study timer and one caller: a six-minute session or a break
InitSession == RInit /\ TInit(MaxLongStarts) /\ GInit /\ EInit

NextSession ==
    \/ \E d \in LongDurations : start_session(d, "math") /\ UNCHANGED nontimer
    \/ \E d \in BreakDurations : start_break(d) /\ UNCHANGED nontimer
    \/ stop_session /\ UNCHANGED nontimer
    \/ stop_session_finish /\ UNCHANGED nontimer
    \/ \E s \in BagToSet(thr) : run_begin(s) /\ UNCHANGED nontimer
    \/ \E s \in BagToSet(thr) : run_sleep(s) /\ UNCHANGED nontimer
    \/ \E s \in BagToSet(thr) : run_tick(s) /\ UNCHANGED nontimer
    \/ \E s \in BagToSet(thr) : complete_branch(s) /\ UNCHANGED nontimer
    \/ \E s \in BagToSet(thr) : complete_break(s) /\ UNCHANGED nontimer
    \/ \E s \in BagToSet(thr) : complete_break_call(s) /\ UNCHANGED nontimer
    \/ \E s \in BagToSet(thr) : complete_log(s) /\ UNCHANGED nontimer
    \/ \E s \in BagToSet(thr) : complete_inc(s) /\ UNCHANGED nontimer
    \/ \E s \in BagToSet(thr) : complete_call(s) /\ UNCHANGED nontimer
    \/ \E s \in BagToSet(thr) : complete_end(s) /\ UNCHANGED nontimer

SpecSession == InitSession /\ [][NextSession]_vars

\* the study timer and one caller who starts sessions and breaks whatever
\* the timer is doing
InitStart == RInit /\ TInit(MaxBusyStarts) /\ GInit /\ EInit

NextStart ==
    \/ \E d \in FocusDurations : start_session(d, "math") /\ UNCHANGED nontimer
    \/ \E d \in BreakDurations : start_break(d) /\ UNCHANGED nontimer
    \/ stop_session /\ UNCHANGED nontimer
    \/ stop_session_finish /\ UNCHANGED nontimer
    \/ \E s \in BagToSet(thr) : run_begin(s) /\ UNCHANGED nontimer
    \/ \E s \in BagToSet(thr) : run_sleep(s) /\ UNCHANGED nontimer
    \/ \E s \in BagToSet(thr) : run_tick(s) /\ UNCHANGED nontimer
    \/ \E s \in BagToSet(thr) : complete_branch(s) /\ UNCHANGED nontimer
    \/ \E s \in BagToSet(thr) : complete_break(s) /\ UNCHANGED nontimer
    \/ \E s \in BagToSet(thr) : complete_break_call(s) /\ UNCHANGED nontimer
    \/ \E s \in BagToSet(thr) : complete_log(s) /\ UNCHANGED nontimer
    \/ \E s \in BagToSet(thr) : complete_inc(s) /\ UNCHANGED nontimer
    \/ \E s \in BagToSet(thr) : complete_call(s) /\ UNCHANGED nontimer
    \/ \E s \in BagToSet(thr) : complete_end(s) /\ UNCHANGED nontimer

SpecStart == InitStart /\ [][NextStart]_vars

\* the study timer and one caller: up to four one-minute sessions in a row
InitPomodoro == RInit /\ TInit(MaxPomodoros) /\ GInit /\ EInit

NextPomodoro ==
    \/ \E d \in FocusDurations : start_session(d, "") /\ UNCHANGED nontimer
    \/ stop_session /\ UNCHANGED nontimer
    \/ stop_session_finish /\ UNCHANGED nontimer
    \/ \E s \in BagToSet(thr) : run_begin(s) /\ UNCHANGED nontimer
    \/ \E s \in BagToSet(thr) : run_sleep(s) /\ UNCHANGED nontimer
    \/ \E s \in BagToSet(thr) : run_tick(s) /\ UNCHANGED nontimer
    \/ \E s \in BagToSet(thr) : complete_branch(s) /\ UNCHANGED nontimer
    \/ \E s \in BagToSet(thr) : complete_log(s) /\ UNCHANGED nontimer
    \/ \E s \in BagToSet(thr) : complete_inc(s) /\ UNCHANGED nontimer
    \/ \E s \in BagToSet(thr) : complete_call(s) /\ UNCHANGED nontimer
    \/ \E s \in BagToSet(thr) : complete_end(s) /\ UNCHANGED nontimer

SpecPomodoro == InitPomodoro /\ [][NextPomodoro]_vars

\* the main loop of the voice interface and the speaker
NextGate ==
    \/ \E d \in Delays : Advance(d) /\ UNCHANGED nongate
    \/ main_loop_active /\ UNCHANGED nongate
    \/ \E t \in Transcriptions : main_loop_listen_once(t) /\ UNCHANGED nongate
    \/ \E t \in Transcriptions : main_loop_wake(t) /\ UNCHANGED nongate
    \/ handle_input /\ UNCHANGED nongate

SpecGate == Init /\ [][NextGate]_vars

\* the same, with time that passes, a loop that keeps running and
\* listen_once calls that return
LiveGate ==
    /\ Init /\ [][NextGate]_vars
    /\ WF_vars((\E d \in Delays : Advance(d)) /\ UNCHANGED nongate)
    /\ WF_vars(main_loop_active /\ UNCHANGED nongate)
    /\ WF_vars((\E t \in Transcriptions : main_loop_listen_once(t)) /\ UNCHANGED nongate)

\* the texts heard in voice mode: nothing, the wake word alone, a goodbye
VoiceTexts ==
    {t \in Transcriptions :
        t = <<>> \/ lower(t) = WAKE_WORD
                 \/ Contains(lower(t), <<"g", "o", "o", "d", "b", "y", "e">>)}

\* voice mode: the main loop, the reminder checker and a countdown, each in
\* its own thread, with the callbacks VoiceInterface installs
InitVoice == RInit /\ TInit(MaxLongStarts) /\ GInit /\ EInit

NextVoice ==
    \/ Advance(conversation_timeout) /\ UNCHANGED nongate
    \/ main_loop_active /\ UNCHANGED nongate
    \/ \E t \in VoiceTexts : main_loop_listen_once(t) /\ UNCHANGED nongate
    \/ \E t \in VoiceTexts : main_loop_wake(t) /\ UNCHANGED nongate
    \/ handle_input /\ UNCHANGED nongate
    \/ Tick /\ UNCHANGED nonreminder
    \/ \E at \in 0..MaxTime : add_reminder(at) /\ UNCHANGED nonreminder
    \/ start_checker /\ UNCHANGED nonreminder
    \/ \E s \in BagToSet(chk) : loop_test(s) /\ UNCHANGED nonreminder
    \/ \E s \in BagToSet(chk) : loop_mark(s) /\ UNCHANGED nonreminder
    \/ \E s \in BagToSet(chk) : loop_deliver(s) /\ speak_reminder /\ UNCHANGED <<tvars, evars>>
    \/ \E d \in FocusDurations : start_session(d, "math") /\ UNCHANGED nontimer
    \/ \E d \in BreakDurations : start_break(d) /\ UNCHANGED nontimer
    \/ \E s \in BagToSet(thr) : run_begin(s) /\ UNCHANGED nontimer
    \/ \E s \in BagToSet(thr) : run_sleep(s) /\ UNCHANGED nontimer
    \/ \E s \in BagToSet(thr) : run_tick(s) /\ UNCHANGED nontimer
    \/ \E s \in BagToSet(thr) : complete_branch(s) /\ UNCHANGED nontimer
    \/ \E s \in BagToSet(thr) : complete_break(s) /\ UNCHANGED nontimer
    \/ \E s \in BagToSet(thr) :
           complete_break_call(s) /\ on_break_complete /\ UNCHANGED <<rvars, evars>>
    \/ \E s \in BagToSet(thr) : complete_log(s) /\ UNCHANGED nontimer
    \/ \E s \in BagToSet(thr) : complete_inc(s) /\ UNCHANGED nontimer
    \/ \E s \in BagToSet(thr) :
           complete_call(s) /\ on_study_complete /\ UNCHANGED <<rvars, evars>>
    \/ \E s \in BagToSet(thr) : complete_end(s) /\ UNCHANGED nontimer

SpecVoice == InitVoice /\ [][NextVoice]_vars

\* the main loop with an audio device that may fail
NextDevice ==
    \/ \E d \in Delays : Advance(d) /\ UNCHANGED nongate
    \/ main_loop_active /\ UNCHANGED nongate
    \/ \E t \in Transcriptions : main_loop_listen_once(t) /\ UNCHANGED nongate
    \/ \E t \in Transcriptions : main_loop_wake(t) /\ UNCHANGED nongate
    \/ handle_input /\ UNCHANGED nongate
    \/ main_loop_audio_raises /\ UNCHANGED <<rvars, tvars>>

SpecDevice == Init /\ [][NextDevice]_vars

\* the utterance recorder, the audio stream and the callers of record_audio
NextEars ==
    \/ \E d \in MaxDurations, src \in Sources : record_audio(d, src) /\ UNCHANGED nonears
    \/ record_begin /\ UNCHANGED nonears
    \/ audio_callback /\ UNCHANGED nonears
    \/ record_chunk /\ UNCHANGED nonears
    \/ record_empty /\ UNCHANGED nonears
    \/ record_return /\ UNCHANGED nonears
    \/ stop_listening /\ UNCHANGED nonears

SpecEars == Init /\ [][NextEars]_vars

\* the same, with a thread in record_audio that keeps running: the stream is
\* opened, every get(timeout=1.0) returns a frame or raises queue.Empty, and
\* the function returns; nothing is assumed about the frames that arrive
LiveEars ==
    /\ Init /\ [][NextEars]_vars
    /\ WF_vars(record_begin /\ UNCHANGED nonears)
    /\ WF_vars((record_chunk \/ record_empty) /\ UNCHANGED nonears)
    /\ WF_vars(record_return /\ UNCHANGED nonears)

\* the two background workers with callbacks and a store that may raise
InitFaults == RInit /\ TInit(MaxLongStarts) /\ GInit /\ EInit

NextFaults ==
    \/ Tick /\ UNCHANGED nonreminder
    \/ \E at \in 0..MaxTime : add_reminder(at) /\ UNCHANGED nonreminder
    \/ start_checker /\ UNCHANGED nonreminder
    \/ \E s \in BagToSet(chk) : loop_test(s) /\ UNCHANGED nonreminder
    \/ \E s \in BagToSet(chk) : loop_mark(s) /\ UNCHANGED nonreminder
    \/ \E s \in BagToSet(chk) : loop_deliver(s) /\ UNCHANGED nonreminder
    \/ \E s \in BagToSet(chk) : loop_mark_raises(s) /\ UNCHANGED nonreminder
    \/ \E s \in BagToSet(chk) : loop_deliver_raises(s) /\ UNCHANGED nonreminder
    \/ \E d \in FocusDurations : start_session(d, "math") /\ UNCHANGED nontimer
    \/ \E s \in BagToSet(thr) : run_begin(s) /\ UNCHANGED nontimer
    \/ \E s \in BagToSet(thr) : run_sleep(s) /\ UNCHANGED nontimer
    \/ \E s \in BagToSet(thr) : run_tick(s) /\ UNCHANGED nontimer
    \/ \E s \in BagToSet(thr) : complete_branch(s) /\ UNCHANGED nontimer
    \/ \E s \in BagToSet(thr) : complete_log(s) /\ UNCHANGED nontimer
    \/ \E s \in BagToSet(thr) : complete_inc(s) /\ UNCHANGED nontimer
    \/ \E s \in BagToSet(thr) : complete_call(s) /\ UNCHANGED nontimer
    \/ \E s \in BagToSet(thr) : complete_end(s) /\ UNCHANGED nontimer
    \/ \E s \in BagToSet(thr) : timer_raises(s) /\ UNCHANGED nontimer

SpecFaults == InitFaults /\ [][NextFaults]_vars

(* ------------------- properties of the reminder checker ---------------- *)
Held(s) == {s.due[k] : k \in 1..Len(s.due)} \cup {s.messages[k] : k \in 1..Len(s.messages)}

\* C1: every stored reminder that is due is notified exactly once over any
\* number of poll cycles: never twice, and a reminder the checker has marked
\* completed and no longer holds in a cycle has been notified
C1_DeliveredExactlyOnce ==
    \A i \in Ids :
        /\ delivered[i] <= 1
        /\ (completedBy[i] = "checker" /\ \A s \in BagToSet(chk) : i \notin Held(s))
               => delivered[i] = 1

\* C2: under any sequence of start_checker and stop_checker calls at most one
\* checker loop is alive, so two check cycles never overlap
C2_SingleActivePoll ==
    /\ AliveCheckers <= 1
    /\ InCycle <= 1

\* C4: a reminder whose remind_at is still in the future has not been fetched,
\* marked completed or notified by any check cycle
C4_NeverEarly ==
    \A i \in Ids :
        (\/ delivered[i] > 0
         \/ completedBy[i] = "checker"
         \/ \E s \in BagToSet(chk) : i \in Held(s))
        => reminders[i].remind_at <= now

\* a cycle has notified a due reminder while another one, still in the
\* future, is left pending and unnotified
C4_Witness ==
    \E i, j \in Ids :
        /\ delivered[i] > 0
        /\ completedBy[i] = "checker"
        /\ reminders[j].remind_at > now
        /\ ~reminders[j].completed
        /\ delivered[j] = 0

\* C5: rows are never removed and a completed flag that is true stays true,
\* so each flag goes from false to true at most once
C5_CompletedMonotone ==
    [][/\ Len(reminders') >= Len(reminders)
       /\ \A i \in Ids : reminders[i].completed => reminders'[i].completed]_vars

\* one reminder completed by a check cycle and one by cancel_reminder, the
\* first of them written by two operations
C5_Witness ==
    \E i, j \in Ids :
        /\ completedBy[i] = "checker"
        /\ delivered[i] = 2
        /\ completedBy[j] = "cancel"
        /\ reminders[i].completed /\ reminders[j].completed

\* C6: a completed flag is true only through a check cycle, and only for a
\* reminder whose remind_at has passed
C6_OnlyCheckerCompletes ==
    \A i \in Ids :
        reminders[i].completed =>
            /\ completedBy[i] = "checker"
            /\ reminders[i].remind_at <= now

(* --------------------- properties of the study timer ------------------- *)
Rows == 1..Len(study_sessions)
CompletedRows(k) == {i \in Rows : study_sessions[i].started_at = k /\ study_sessions[i].completed}
StoppedRows(k) == {i \in Rows : study_sessions[i].started_at = k /\ ~study_sessions[i].completed}
CallsFor(k) == {i \in 1..Len(complete_calls) : complete_calls[i].session = k}

\* C3: for one focus session the completion path (completed=true record,
\* completion callback) and the stop path (completed=false record or the
\* "Session stopped" report) never both run; the store never holds both a
\* completed=true and a completed=false record of the same session
C3_CompletionXorStop ==
    \A k \in 1..starts :
        /\ ~(CompletedRows(k) # {} /\ result.kind = "stopped" /\ result.session = k)
        /\ ~(CompletedRows(k) # {} /\ StoppedRows(k) # {})

\* C7: start_session called while the timer is active returns the "already
\* in progress" message and leaves the timer state and the threads as they are
C7_StartWhileActiveRejected ==
    [][\A d \in FocusDurations \cup LongDurations, subject \in Subjects :
          (is_active /\ start_session(d, subject)) =>
              /\ result'.kind = "already in progress"
              /\ UNCHANGED <<is_active, is_break, current_subject, session_start,
                             session_duration, remaining_seconds, stop_event, thr>>]_vars

\* a start_session call was turned down during a break
C7_Witness ==
    /\ result.kind = "already in progress"
    /\ is_active /\ is_break
    /\ BagCardinality(thr) = 1

\* C8: stop_session during Focus persists a record iff the elapsed whole
\* minutes floor((duration*60 - remaining_seconds)/60) are at least 5; the
\* record has completed=false and that many minutes; the timer ends inactive
C8_StopPersistsFromFiveMinutes ==
    [][(stop_session_finish /\ ~is_break) =>
          LET elapsed == (session_duration * 60 - remaining_seconds) \div 60
          IN /\ ~is_active'
             /\ IF elapsed >= 5
                THEN /\ Len(study_sessions') = Len(study_sessions) + 1
                     /\ SubSeq(study_sessions', 1, Len(study_sessions)) = study_sessions
                     /\ ~study_sessions'[Len(study_sessions')].completed
                     /\ study_sessions'[Len(study_sessions')].duration_minutes = elapsed
                ELSE study_sessions' = study_sessions]_vars

\* a session stopped after six minutes left a completed=false record of six
\* minutes as the only record
C8_Witness ==
    /\ result.kind = "stopped" /\ result.minutes = 6
    /\ ~is_active
    /\ Len(study_sessions) = 1
    /\ ~study_sessions[1].completed
    /\ study_sessions[1].duration_minutes = 6

\* C9: the n-th call of on_session_complete (no reset in between) reports
\* the long break of 15 minutes iff n mod 4 = 0 and the short break of 5
\* minutes otherwise
C9_LongBreakEveryFourth ==
    \A n \in 1..Len(complete_calls) :
        complete_calls[n].break = (IF n % 4 = 0 THEN 15 ELSE 5)

\* C10: a focus session whose countdown reaches zero and that stop_session
\* was never asked to stop persists one completed=true record, not more,
\* and fires the completion callback once, not more
C10_OneCompletionPerSession ==
    \A k \in (1..starts) \ stop_requests :
        /\ Cardinality(CompletedRows(k)) <= 1
        /\ Cardinality(CallsFor(k)) <= 1

\* C11: while only breaks have been started (no focus session ever), no
\* study-session record is persisted and pomodoro_count does not change
C11_BreakLeavesNoRecord ==
    session_start = 0 => (study_sessions = <<>> /\ pomodoro_count = 0)

\* C12: start_break called during a focus session returns the decline
\* message and leaves the threads, is_active, is_break, remaining_seconds
\* and the stop signal as they are
C12_BreakDuringFocusRejected ==
    [][\A d \in BreakDurations :
          (is_active /\ ~is_break /\ start_break(d)) =>
              /\ result'.kind = "in a focus session"
              /\ UNCHANGED <<is_active, is_break, remaining_seconds, stop_event, thr>>]_vars

\* a start_break call was turned down during a running focus session
C12_Witness ==
    /\ result.kind = "in a focus session"
    /\ is_active /\ ~is_break
    /\ BagCardinality(thr) = 1
    /\ remaining_seconds > 0

(* ------------------- properties of the wake-word gate ------------------ *)
WakeToken == <<"a", "r", "t", "h", "u", "r">>
Goodbye == <<"g", "o", "o", "d", "b", "y", "e">>

\* the lower-cased text has the characters w at offset i
HasAt(text, w, i) ==
    /\ i + Len(w) <= Len(text)
    /\ \A k \in 1..Len(w) : lower_char(text[i + k]) = w[k]

Has(text, w) == \E i \in 0..Len(text) : HasAt(text, w, i)

\* the lower-cased characters of text from offset n on
LowerTail(text, n) == [k \in 1..(Len(text) - n) |-> lower_char(text[n + k])]

\* command is the tail without the blanks around it and without separators
\* (blank, comma, period) in front of it
TrimmedOf(command, tail) ==
    /\ command # <<>> => (Head(command) # " " /\ command[Len(command)] # " ")
    /\ \E a \in 0..Len(tail) :
          /\ a + Len(command) <= Len(tail)
          /\ SubSeq(tail, a + 1, a + Len(command)) = command
          /\ \A k \in 1..a : tail[k] \in {" ", ",", "."}
          /\ \A k \in (a + Len(command) + 1)..Len(tail) : tail[k] = " "

\* C13: outside a conversation, for every transcription whose lower-cased
\* text contains 'arthur', listen_with_wake_word returns a command (not None),
\* namely the trimmed text after the first occurrence of the token, and the
\* main loop sets conversation_active and refreshes last_interaction
C13_WakeYieldsCommand ==
    [][\A t \in Transcriptions :
          (main_loop_wake(t) /\ Has(t, WakeToken)) =>
              /\ listened'.some
              /\ \E i \in 0..Len(t) :
                    /\ HasAt(t, WakeToken, i)
                    /\ \A j \in 0..(i - 1) : ~HasAt(t, WakeToken, j)
                    /\ TrimmedOf(listened'.command, LowerTail(t, i + Len(WakeToken)))
              /\ conversation_active'
              /\ last_interaction' = clock]_vars

\* "arthur what's up" woke the gate and left the command "what's up"
C13_Witness ==
    /\ listened.call = "listen_with_wake_word"
    /\ listened.text = <<"a", "r", "t", "h", "u", "r", " ", "w", "h", "a", "t", "'", "s", " ", "u", "p">>
    /\ listened.some
    /\ heard = <<"w", "h", "a", "t", "'", "s", " ", "u", "p">>
    /\ conversation_active
    /\ gpc = "handle"

\* C14: outside a conversation, for every transcription without the wake
\* token (the empty one included) listen_with_wake_word returns None and
\* conversation_active, last_interaction and the saved and routed commands
\* stay as they are
C14_NoWakeNoChange ==
    [][\A t \in Transcriptions :
          (main_loop_wake(t) /\ ~Has(t, WakeToken)) =>
              /\ ~listened'.some
              /\ ~conversation_active'
              /\ UNCHANGED <<last_interaction, gpc, heard, commands, routed, greetings>>]_vars

\* "hello there" was heard outside a conversation and nothing followed
C14_Witness ==
    /\ listened.call = "listen_with_wake_word"
    /\ listened.text = <<"h", "e", "l", "l", "o", " ", "t", "h", "e", "r", "e">>
    /\ ~listened.some
    /\ ~conversation_active
    /\ gpc = "top"
    /\ commands = <<>>

\* C15: an iteration that starts in a conversation ends the conversation
\* without listening iff now - last_interaction > 30; otherwise the
\* conversation goes on and the loop listens
C15_IdleTimeout ==
    [][main_loop_active =>
          IF clock - last_interaction > 30
          THEN /\ ~conversation_active'
               /\ gpc' = "top"
               /\ listened'.call = "none"
               /\ UNCHANGED <<last_interaction, heard, commands, routed, greetings>>
          ELSE /\ conversation_active'
               /\ gpc' = "listen_once"]_vars

\* a conversation opened by a greeting timed out after 31 idle seconds
C15_Witness ==
    /\ ~conversation_active
    /\ greetings = 1
    /\ listened.call = "none"
    /\ clock - last_interaction = 31
    /\ gpc = "top"

\* C16: in a conversation a transcription that contains the wake token is
\* passed whole to _handle_input, without a greeting, and is saved whole; the
\* conversation goes on unless the text contains an end phrase
C16_WakeTokenInConversation ==
    [][/\ \A t \in Transcriptions :
             (main_loop_listen_once(t) /\ Has(t, WakeToken)) =>
                 /\ heard' = t /\ gpc' = "handle"
                 /\ conversation_active'
                 /\ greetings' = greetings
       /\ (handle_input /\ listened.call = "listen_once" /\ Has(heard, WakeToken)) =>
                 /\ commands' = Append(commands, heard)
                 /\ conversation_active' \/ AnyIn(EndPhrases, lower(heard))]_vars

\* "arthur hi arthur" was said in a conversation and handled whole
C16_Witness ==
    /\ listened.call = "listen_once"
    /\ commands = << <<"a", "r", "t", "h", "u", "r", " ", "h", "i", " ", "a", "r", "t", "h", "u", "r">> >>
    /\ routed = commands
    /\ conversation_active
    /\ greetings = 1

\* C17: handling a command whose lower-cased text contains 'goodbye' ends
\* the conversation in the same iteration, whatever the clock says, and the
\* command is not passed to _process_command
C17_GoodbyeEndsConversation ==
    [][(handle_input /\ Has(heard, Goodbye)) =>
          /\ ~conversation_active'
          /\ gpc' = "top"
          /\ routed' = routed]_vars

\* "ok Goodbye" was handled: saved, not routed, the conversation over
C17_Witness ==
    /\ commands = << <<"o", "k", " ", "G", "o", "o", "d", "b", "y", "e">> >>
    /\ routed = <<>>
    /\ ~conversation_active
    /\ gpc = "top"

\* the calls of transcribe that fail: no audio, no model, an exception
Failed == {[audio |-> 0, loaded |-> TRUE, raises |-> FALSE, text |-> <<>>],
           [audio |-> 1, loaded |-> FALSE, raises |-> FALSE, text |-> <<>>],
           [audio |-> 1, loaded |-> TRUE, raises |-> TRUE, text |-> <<>>]}

\* C22: a transcription that fails yields the empty text and counts as no
\* speech: outside a conversation nothing changes, in a conversation no
\* command is forwarded, and the main loop is at the top of its next
\* iteration
C22_FailureIsNoSpeech ==
    [][\A attempt \in Failed :
          /\ transcribe(attempt) = <<>>
          /\ main_loop_wake(transcribe(attempt))
             => /\ gpc' = "top"
                /\ UNCHANGED <<conversation_active, last_interaction, heard, commands,
                               routed, greetings>>
          /\ main_loop_listen_once(transcribe(attempt))
             => /\ gpc' = "top"
                /\ UNCHANGED <<conversation_active, last_interaction, heard, commands,
                               routed, greetings>>]_vars

\* listen_once has returned the empty text in a conversation, which goes on
C22_Witness ==
    /\ conversation_active
    /\ gpc = "top"
    /\ listened.call = "listen_once"
    /\ listened.text = <<>>
    /\ heard = <<>>

\* C32: in a conversation a transcription that is not empty is handed to
\* _handle_input with last_interaction set to the time it was received, and
\* _handle_input takes it once; an empty one is not handed on and leaves
\* last_interaction as it was
C32_EveryUtteranceForwarded ==
    [][/\ \A t \in Transcriptions :
             main_loop_listen_once(t) =>
                 IF t # <<>>
                 THEN /\ gpc' = "handle"
                      /\ heard' = t
                      /\ last_interaction' = clock
                 ELSE /\ gpc' = "top"
                      /\ UNCHANGED <<last_interaction, heard, commands, routed>>
       /\ (gpc = "handle" /\ gpc' # "handle")
             => /\ commands' = Append(commands, heard)
                /\ heard' = <<>>
                /\ gpc' = "top"]_vars

\* a text received by listen_once in a conversation has been handled and
\* routed, and last_interaction is the time it was received
C32_Witness ==
    /\ gpc = "top"
    /\ listened.call = "listen_once"
    /\ listened.text # <<>>
    /\ commands = <<listened.text>>
    /\ routed = <<listened.text>>
    /\ last_interaction > 0
    /\ conversation_active

\* C33: a conversation in which no text is received any more ends: from a
\* state in a conversation (with room on the clock for the idle limit to
\* pass and for one more command) the loop comes to a state outside a
\* conversation, or a text that is not empty is handed to _handle_input
C33_IdleConversationEnds ==
    (/\ conversation_active
     /\ gpc # "handle"
     /\ Len(commands) < MaxCommands
     /\ last_interaction + 30 < MaxClock)
        ~> (~conversation_active \/ gpc = "handle")

\* a conversation opened by the wake word alone, in which no command was
\* ever received, has ended after the idle limit
C33_Witness ==
    /\ ~conversation_active
    /\ greetings >= 1
    /\ commands = <<>>
    /\ listened.call = "none"
    /\ clock - last_interaction > 30
    /\ gpc = "top"

\* C34: no step of a checker thread or of a countdown thread, the
\* notification, session-complete and break-complete callbacks included,
\* changes conversation_active or last_interaction
C34_GateFieldsOwnedByLoop ==
    [][(chk' # chk \/ thr' # thr \/ delivered' # delivered
          \/ complete_calls' # complete_calls \/ break_calls' # break_calls)
         => UNCHANGED <<conversation_active, last_interaction>>]_vars

\* a reminder was spoken and a session was completed while a conversation
\* that the main loop opened after some time is going on
C34_Witness ==
    /\ \E id \in 1..MaxReminders : delivered[id] >= 1
    /\ complete_calls # <<>>
    /\ conversation_active
    /\ last_interaction > 0

(* ----------------- properties of the utterance recorder ---------------- *)
\* the number of frames below the threshold of 0.01 at the end of chunks
RECURSIVE TrailingSilent(_)
TrailingSilent(chunks) ==
    IF chunks # <<>> /\ chunks[Len(chunks)].level < 1
    THEN 1 + TrailingSilent(SubSeq(chunks, 1, Len(chunks) - 1))
    ELSE 0

\* chunks are the first frames of the stream, each once and in order
FirstFrames(chunks) == \A i \in 1..Len(chunks) : chunks[i].n = i

\* the cap in frames for a max_duration argument given in tenths of a second
Cap(duration) == (IF duration = 0 THEN 300 ELSE duration) \div 5

\* C18: as soon as the last 3 frames dequeued are all below the threshold
\* and more than 2 frames are accumulated the recording loop ends; what
\* record_audio returns is the frames dequeued by the loop, each once and in
\* order; the next recording starts with no frames
C18_SilenceEndsRecording ==
    [][/\ (record_chunk /\ Len(recorded_chunks') > Len(recorded_chunks)
            /\ TrailingSilent(recorded_chunks') >= 3 /\ Len(recorded_chunks') > 2)
          => epc' = "exit"
       /\ record_return
          => (utterance' = recorded_chunks /\ FirstFrames(recorded_chunks)
              /\ audio_queue' = <<>>)
       /\ (\E d \in MaxDurations, src \in Sources : record_audio(d, src))
          => recorded_chunks' = <<>>]_vars

\* two loud frames and three silent ones were returned as one utterance
C18_Witness ==
    /\ epc = "idle"
    /\ Len(utterance) = 5
    /\ TrailingSilent(utterance) = 3
    /\ silence_chunks = 3
    /\ utterance[1].level >= 1 /\ utterance[2].level >= 1
    /\ ~is_recording

\* C19: no recording and no utterance has more frames than
\* floor(max_duration / chunk_duration), 60 by default, and with that many
\* frames accumulated the next step of the loop ends the recording
C19_CapEnforced ==
    [][/\ Len(recorded_chunks') <= Cap(max_duration')
       /\ Len(utterance') <= Cap(max_duration')
       /\ (record_chunk /\ Len(recorded_chunks) = Cap(max_duration))
          => (epc' = "exit" /\ UNCHANGED recorded_chunks)]_vars

\* 60 frames, none of them below the threshold, were returned by default
C19_Witness ==
    /\ epc = "idle"
    /\ max_duration = 0
    /\ Len(utterance) = 60
    /\ \A i \in 1..Len(utterance) : utterance[i].level >= 1

\* C23: the first frame of what a recording accumulates and returns is not
\* below the silence threshold: frames dequeued before one that is loud are
\* left out, and a recording of silent frames only returns nothing
C23_NoLeadingSilence ==
    /\ recorded_chunks # <<>> => recorded_chunks[1].level >= 1
    /\ utterance # <<>> => utterance[1].level >= 1

\* C24: when record_audio is not running the audio queue is empty, and every
\* frame a recording accumulates or returns was enqueued during that
\* recording
C24_NoFrameCrossesCycles ==
    /\ epc \in {"idle", "begin"} => audio_queue = <<>>
    /\ \A i \in 1..Len(recorded_chunks) : recorded_chunks[i].cycle = cycle
    /\ \A i \in 1..Len(utterance) : utterance[i].cycle = cycle

\* a second recording has returned an utterance, and frames its stream had
\* delivered beyond the utterance were discarded
C24_Witness ==
    /\ epc = "idle"
    /\ cycle = 0
    /\ utterance # <<>>
    /\ produced > Len(utterance)
    /\ audio_queue = <<>>

\* C25: every call of record_audio returns; a dequeue that times out ends the
\* loop, and the frames accumulated until then are what is returned
C25_RecordingTerminates ==
    /\ (epc # "idle") ~> (epc = "idle")
    /\ [][/\ record_empty => (epc' = "exit" /\ UNCHANGED recorded_chunks)
          /\ record_return => utterance' = recorded_chunks]_vars

\* the loop has ended on a dequeue timeout with one frame accumulated: the
\* recording flag is still set and neither the silence rule nor the cap applies
C25_Witness ==
    /\ epc = "exit"
    /\ is_recording
    /\ stop_at = -1
    /\ Len(recorded_chunks) = 1
    /\ produced = 1

\* C26: after a stop_listening call made while record_audio runs, the
\* recording flag stays cleared and the loop accumulates at most one more
\* frame
C26_StopObserved ==
    (stop_at >= 0 /\ epc = "loop") =>
        (~is_recording /\ Len(recorded_chunks) <= stop_at + 1)

(* ------------------ properties of the workers under faults ------------- *)
\* C20: an exception raised inside a check cycle or inside the countdown
\* does not end the worker: while running is set a checker thread is alive,
\* and while the timer is active a countdown thread is alive to end it
C20_WorkersSurviveExceptions ==
    /\ running => AliveCheckers >= 1
    /\ is_active => BagCardinality(thr) >= 1

(* ------------- further properties of the reminder checker ------------- *)
\* C27: a reminder whose completed flag a check cycle has set was delivered
\* by that cycle before (fetch, deliver, then flip)
C27_DeliverThenFlip ==
    \A id \in Ids :
        (reminders[id].completed /\ completedBy[id] = "checker") => delivered[id] >= 1

\* C21: stop_checker always returns, at once when no thread was ever
\* started; a checker thread that tests the running flag after stop_checker
\* starts no cycle and ends; and unless start_checker sets the flag again
\* every checker thread has ended after its next test
C21_StopReturnsAndEndsLoop ==
    /\ (rfg = "join") ~> (rfg = "idle")
    /\ (~running) ~> (running \/ AliveCheckers = 0)
    /\ [][/\ (stop_checker /\ checker_thread = 0) => rfg' = "idle"
          /\ \A s \in BagToSet(chk) :
                (~running /\ loop_test(s)) =>
                    (AliveCheckers' = AliveCheckers - 1 /\ InCycle' = InCycle)]_vars

\* a checker that has delivered a reminder was stopped, stop_checker has
\* returned and the thread has ended
C21_Witness ==
    /\ rfg = "idle"
    /\ ~running
    /\ checker_thread = 1
    /\ AliveCheckers = 0
    /\ \E id \in 1..MaxReminders : delivered[id] >= 1

(* ---------------- further properties of the study timer ---------------- *)
\* C28: when stop_session has returned for an active session or break, no
\* countdown thread is alive
C28_StopWaitsForThread ==
    (tfg = "idle" /\ result.kind \in {"stopped", "break ended"}) => thr = EmptyBag

\* C29: while is_active is true remaining_seconds never increases from one
\* state to the next
C29_RemainingNeverIncreases ==
    [][(is_active /\ is_active') => remaining_seconds' <= remaining_seconds]_vars

\* C30: once a session has ended, by completion or by stop_session, is_active
\* is false and remaining_seconds is 0
C30_EndedMeansZero ==
    (~is_active /\ tfg = "idle") => remaining_seconds = 0

\* C31: on_tick is called on exactly the steps on which a one-second
\* decrement changes floor(remaining_seconds / 60), and a countdown of D
\* minutes that reaches its completion has made D calls
C31_TickOnMinuteChange ==
    /\ [][(ticks' = ticks + 1)
            <=> /\ remaining_seconds' = remaining_seconds - 1
                /\ remaining_seconds' \div 60 # remaining_seconds \div 60]_vars
    /\ [](\A s \in BagToSet(thr) :
             (s.pc = "complete" /\ ~is_break) => ticks = session_duration)

\* C37: at most one countdown thread is alive
C37_OneCountdownThread == BagCardinality(thr) <= 1

\* C38: remaining_seconds is never negative
C38_RemainingNotNegative == remaining_seconds >= 0

\* C39: outside the two lines that write the record and add one,
\* pomodoro_count is the number of completed=true study records, and it is
\* positive only if a focus session was ever started: stopping, starting a
\* break and the end of a break do not change it
C39_CountIsCompletedSessions ==
    /\ (\A s \in BagToSet(thr) : s.pc # "inc")
       => pomodoro_count = Cardinality({i \in 1..Len(study_sessions) :
                                           study_sessions[i].completed})
    /\ pomodoro_count > 0 => session_start > 0

\* C36: a command yielded on a wake does not begin with a comma, a period
\* or a blank
C36_CommandStartsClean ==
    (listened.call = "listen_with_wake_word" /\ listened.some /\ listened.command # <<>>)
        => listened.command[1] \notin {",", ".", " "}

\* C40: a reminder a check cycle has marked completed was delivered, or a
\* live checker thread still holds its message for delivery in this cycle
C40_MarkedIsDelivered ==
    \A id \in Ids :
        (reminders[id].completed /\ completedBy[id] = "checker" /\ delivered[id] = 0)
            => \E s \in BagToSet(chk) :
                   /\ s.pc \in {"mark", "deliver"}
                   /\ \E i \in 1..Len(s.messages) : s.messages[i] = id

\* C35: when the audio stream fails inside a recording the main loop goes
\* on with its next iteration: it is at one of its own lines
C35_LoopSurvivesAudioFailure == gpc \in {"top", "listen_once", "handle"}

====
